---- MODULE Spec2Model ----
(***************************************************************************)
(* Model of aruco_py/scripts/test_optimizations.py: the preset table, the  *)
(* multi-threshold merge of detect_markers, the benchmark loop of          *)
(* test_configuration and the linear control flow of main.  The vision     *)
(* library (cv2) and the clock (time.time) are the environment: what a     *)
(* library call returns, whether it raises, and how long a detection call  *)
(* lasts are inputs drawn from bounded sets.                               *)
(***************************************************************************)
EXTENDS Integers, Sequences, FiniteSets, TLC

VARIABLES
    pc,           \* position in main / test_configuration
    capOpened,    \* cap.isOpened() as observed at line 138
    capReleased,  \* cap.release() has been called
    openCount,    \* number of cv2.VideoCapture(0) constructions
    readCount,    \* number of cap.read() calls
    frame,        \* the frame variable of main
    out,          \* what has been printed, in order
    results,      \* the results list of main
    result,       \* the record returned by the current test_configuration
    k,            \* index of config_name in the loop of line 165
    i,            \* warm-up iterations completed (line 111)
    j,            \* timed iterations completed (line 117)
    now,          \* the clock read by time.time(), in ticks
    start,        \* the start variable of test_configuration
    corners,      \* corners as last assigned at line 118 / returned by detect_markers
    ids,          \* ids as last assigned at line 118 / returned by detect_markers
    calls,        \* detect_markers calls made so far, in order
    hist,         \* bookkeeping of the current test_configuration run
    exc,          \* the exception that ended main, if any
    m,            \* index into results in the loop of line 189
    anyDetected,  \* some library pass has reported a marker
    dcfg,         \* detect_markers in isolation: the config argument
    libA,         \* detect_markers in isolation: result of the first library call
    libO,         \* detect_markers in isolation: result of the second library call
    libCalls      \* detect_markers in isolation: images handed to the library

vars == <<pc, capOpened, capReleased, openCount, readCount, frame, out, results,
          result, k, i, j, now, start, corners, ids, calls, hist, exc, m,
          anyDetected, dcfg, libA, libO, libCalls>>

(***************************************************************************)
(* Bounds of the environment.                                              *)
(***************************************************************************)
MaxDet == 2        \* markers one library call reports at most
MaxMarkerId == 2   \* marker identifiers are 1..MaxMarkerId
MaxCorner == 2     \* distinct corner-sets are 1..MaxCorner
MaxDur == 1        \* a detection call lasts 0..MaxDur clock ticks
MaxBenchDet == 1   \* markers one library call reports at most during a benchmark run
MaxClock == 2      \* ticks the clock advances at most during one run of main

(***************************************************************************)
(* Program constants.                                                      *)
(***************************************************************************)
WarmupIterations == 3
num_iterations == 10

MarkerIds == 1..MaxMarkerId
CornerSets == 1..MaxCorner
Durations == 0..MaxDur

\* configs, lines 11-33
configs ==
    [original  |-> [use_clahe |-> FALSE, use_bilateral |-> FALSE,
                    use_multi_threshold |-> FALSE,
                    adaptive_thresh_constant |-> 7,
                    corner_refinement_max_iterations |-> 30],
     optimized |-> [use_clahe |-> TRUE, use_bilateral |-> FALSE,
                    use_multi_threshold |-> TRUE,
                    adaptive_thresh_constant |-> 5,
                    corner_refinement_max_iterations |-> 60],
     maximum   |-> [use_clahe |-> TRUE, use_bilateral |-> TRUE,
                    use_multi_threshold |-> TRUE,
                    adaptive_thresh_constant |-> 5,
                    corner_refinement_max_iterations |-> 80]]

\* the list iterated at line 165
ConfigOrder == <<"original", "optimized", "maximum">>

(***************************************************************************)
(* Values.  ids is None or an array; an array is a sequence of identifiers.*)
(***************************************************************************)
NoneIds == [none |-> TRUE, arr |-> <<>>]
ArrayOf(s) == [none |-> FALSE, arr |-> s]

\* what cv2.aruco.detectMarkers returns in [:2]: n corner-sets and n identifiers,
\* ids being None when nothing is found
LibResultsUpTo(n) ==
    {[corners |-> <<>>, ids |-> NoneIds]} \cup
    UNION {{[corners |-> c, ids |-> ArrayOf(d)] :
              c \in [1..len -> CornerSets], d \in [1..len -> MarkerIds]} :
           len \in 1..n}

LibResults == LibResultsUpTo(MaxDet)

\* during a benchmark run a library call reports the markers 1..n of the frame,
\* each with corner-set 1, for some n
BenchLibResults ==
    {[corners |-> <<>>, ids |-> NoneIds]} \cup
    {[corners |-> [x \in 1..n |-> 1], ids |-> ArrayOf([x \in 1..n |-> x])] :
       n \in 1..MaxBenchDet}

\* cv2.cvtColor(frame, COLOR_BGR2GRAY), line 107: an image is its source and the
\* operations applied to it
cvtColor(f) == [src |-> f.src, shape |-> <<f.shape[1], f.shape[2]>>, ops |-> <<"gray">>]

\* setup_detector, lines 35-55
setup_detector(config_name) ==
    [dictionary |-> "DICT_7X7_50",
     parameters |-> [adaptiveThreshConstant |-> configs[config_name].adaptive_thresh_constant,
                     cornerRefinementMaxIterations |->
                         configs[config_name].corner_refinement_max_iterations,
                     cornerRefinementMethod |-> "CORNER_REFINE_SUBPIX",
                     cornerRefinementWinSize |-> 5,
                     detectInvertedMarker |-> TRUE],
     cfg |-> configs[config_name]]

\* preprocess_image, lines 57-68
preprocess_image(gray, config) ==
    LET afterClahe == IF config.use_clahe
                      THEN [gray EXCEPT !.ops = Append(@, "clahe")]
                      ELSE gray
    IN  IF config.use_bilateral
        THEN [afterClahe EXCEPT !.ops = Append(@, "bilateral")]
        ELSE afterClahe

\* cv2.threshold(processed, 0, 255, THRESH_BINARY + THRESH_OTSU), line 89
threshold_otsu(img) == [img EXCEPT !.ops = Append(@, "otsu")]

EmptyAcc == [all_corners |-> <<>>, all_ids |-> <<>>, seen_ids |-> {}]

\* the loop body of lines 83-86 / 93-96, from index n on
RECURSIVE MergeFrom(_, _, _)
MergeFrom(acc, res, n) ==
    IF n > Len(res.ids.arr) THEN acc
    ELSE LET marker_id == res.ids.arr[n]
         IN  IF marker_id \notin acc.seen_ids
             THEN MergeFrom([all_corners |-> Append(acc.all_corners, res.corners[n]),
                             all_ids     |-> Append(acc.all_ids, marker_id),
                             seen_ids    |-> acc.seen_ids \cup {marker_id}],
                            res, n + 1)
             ELSE MergeFrom(acc, res, n + 1)

\* MergePass without the seen_ids test of lines 83 / 93
MergePassUnfiltered(acc, res) ==
    IF res.ids.none THEN acc
    ELSE [all_corners |-> acc.all_corners \o res.corners,
          all_ids     |-> acc.all_ids \o res.ids.arr,
          seen_ids    |-> acc.seen_ids \cup {res.ids.arr[n] : n \in 1..Len(res.ids.arr)}]

\* lines 81-86 / 91-96: one pass merged into the accumulators
MergePass(acc, res) ==
    IF res.ids.none THEN acc ELSE MergeFrom(acc, res, 1)

\* detect_markers merging the Otsu pass before the adaptive pass
detect_markers_OtsuFirst(gray, config, adaptive, otsu) ==
    LET processed == preprocess_image(gray, config)
    IN  IF config.use_multi_threshold
        THEN LET acc1 == MergePass(EmptyAcc, otsu)
                 acc2 == MergePass(acc1, adaptive)
             IN  IF Len(acc2.all_ids) > 0
                 THEN [corners  |-> acc2.all_corners,
                       ids      |-> ArrayOf(acc2.all_ids),
                       libcalls |-> <<processed, threshold_otsu(processed)>>]
                 ELSE [corners  |-> <<>>,
                       ids      |-> NoneIds,
                       libcalls |-> <<processed, threshold_otsu(processed)>>]
        ELSE [corners  |-> adaptive.corners,
              ids      |-> adaptive.ids,
              libcalls |-> <<processed>>]

\* detect_markers filtering the single pass through seen_ids as well
detect_markers_SingleFiltered(gray, config, adaptive, otsu) ==
    LET processed == preprocess_image(gray, config)
        acc1 == MergePass(EmptyAcc, adaptive)
        acc2 == IF config.use_multi_threshold THEN MergePass(acc1, otsu) ELSE acc1
        images == IF config.use_multi_threshold
                  THEN <<processed, threshold_otsu(processed)>>
                  ELSE <<processed>>
    IN  IF Len(acc2.all_ids) > 0
        THEN [corners |-> acc2.all_corners, ids |-> ArrayOf(acc2.all_ids),
              libcalls |-> images]
        ELSE [corners |-> <<>>, ids |-> NoneIds, libcalls |-> images]

\* detect_markers, lines 70-103; adaptive and otsu are what the first and the
\* second library call return.  libcalls: the images handed to the library.
detect_markers(gray, config, adaptive, otsu) ==
    LET processed == preprocess_image(gray, config)
    IN  IF config.use_multi_threshold
        THEN LET acc1 == MergePass(EmptyAcc, adaptive)
                 acc2 == MergePass(acc1, otsu)
             IN  IF Len(acc2.all_ids) > 0
                 THEN [corners  |-> acc2.all_corners,
                       ids      |-> ArrayOf(acc2.all_ids),
                       libcalls |-> <<processed, threshold_otsu(processed)>>]
                 ELSE [corners  |-> <<>>,
                       ids      |-> NoneIds,
                       libcalls |-> <<processed, threshold_otsu(processed)>>]
        ELSE [corners  |-> adaptive.corners,
              ids      |-> adaptive.ids,
              libcalls |-> <<processed>>]

(***************************************************************************)
(* Arithmetic of the benchmark record: exact rationals n/d, d > 0.         *)
(***************************************************************************)
RECURSIVE GCD(_, _)
GCD(a, b) == IF b = 0 THEN a ELSE GCD(b, a % b)
Abs(x) == IF x < 0 THEN -x ELSE x
Rat(n, d) ==
    LET g == GCD(Abs(n), Abs(d))
        s == IF d < 0 THEN -1 ELSE 1
    IN  [n |-> s * (n \div g), d |-> s * (d \div g)]
RatInt(n) == [n |-> n, d |-> 1]
RatSub(a, b) == Rat(a.n * b.d - b.n * a.d, a.d * b.d)
RatMul(a, b) == Rat(a.n * b.n, a.d * b.d)
IsZero(a) == a.n = 0
IsPositive(a) == a.n > 0
\* what a / b evaluates to when Python raises ZeroDivisionError
DivError == [n |-> 0, d |-> 0]
\* a / b on floats: ZeroDivisionError when b is zero
RatDiv(a, b) == IF IsZero(b) THEN DivError ELSE Rat(a.n * b.d, a.d * b.n)

\* time.time() in seconds; the clock ticks in milliseconds
Seconds(t) == Rat(t, 1000)

\* line 119 dividing by every call made, warm-up included
ElapsedMsAllCalls(t_start, t_end) ==
    RatMul(RatDiv(RatSub(Seconds(t_end), Seconds(t_start)),
                  RatInt(WarmupIterations + num_iterations)),
           RatInt(1000))

\* line 119: (time.time() - start) / num_iterations * 1000
ElapsedMs(t_start, t_end) ==
    RatMul(RatDiv(RatSub(Seconds(t_end), Seconds(t_start)), RatInt(num_iterations)),
           RatInt(1000))

\* line 121: len(ids) if ids is not None else 0
NumDetected(idv) == IF ~idv.none THEN Len(idv.arr) ELSE 0

\* line 127 without its guard
FpsUnguarded(elapsed) == RatDiv(RatInt(1000), elapsed)

\* line 127: 1000.0 / elapsed if elapsed > 0 else 0
Fps(elapsed) == IF IsPositive(elapsed) THEN RatDiv(RatInt(1000), elapsed) ELSE RatInt(0)

\* lines 123-128
BenchmarkRecord(config_name, idv, elapsed) ==
    [config      |-> config_name,
     num_markers |-> NumDetected(idv),
     time_ms     |-> elapsed,
     fps         |-> Fps(elapsed)]

NoResult == [config |-> "none", num_markers |-> 0, time_ms |-> RatInt(0), fps |-> RatInt(0)]
NoHist == [enteredAt |-> 0, callsAtBegin |-> 0, callsAtStart |-> 0, callsAtStop |-> 0,
           timedTicks |-> 0, timedDurs |-> {}]
NoFrame == [src |-> "none", shape |-> <<>>]
\* np.random.randint(0, 255, (480, 640, 3)), line 142
SyntheticFrame == [src |-> "synthetic", shape |-> <<480, 640, 3>>]
\* what cap.read() may deliver, line 144
CameraFrames == {[src |-> "camera", shape |-> sh] : sh \in {<<480, 640, 3>>, <<720, 1280, 3>>}}
\* the configurations detect_markers is called with: the cfg of setup_detector
DetectConfigs == {setup_detector(name).cfg : name \in DOMAIN configs}
NoLib == [corners |-> <<>>, ids |-> NoneIds]

Line(text) == [kind |-> text]

(***************************************************************************)
(* main, lines 130-209.                                                    *)
(***************************************************************************)
Init ==
    /\ pc = "open"
    /\ capOpened = FALSE
    /\ capReleased = FALSE
    /\ openCount = 0
    /\ readCount = 0
    /\ frame = NoFrame
    /\ out = <<>>
    /\ results = <<>>
    /\ result = NoResult
    /\ k = 1
    /\ i = 0
    /\ j = 0
    /\ now = 0
    /\ start = 0
    /\ corners = <<>>
    /\ ids = NoneIds
    /\ calls = <<>>
    /\ hist = NoHist
    /\ exc = "none"
    /\ m = 2
    /\ anyDetected = FALSE
    /\ dcfg = configs.original
    /\ libA = NoLib
    /\ libO = NoLib
    /\ libCalls = <<>>

isolated == <<dcfg, libA, libO, libCalls>>
camera == <<capOpened, capReleased, openCount, readCount>>
bench == <<result, i, j, now, start, corners, ids, calls, hist, anyDetected>>

\* lines 132-142 without the generated frame
OpenFailsNoFallback ==
    /\ pc = "open"
    /\ openCount' = openCount + 1
    /\ capOpened' = FALSE
    /\ out' = out \o <<Line("banner"), Line("Error: Could not open camera")>>
    /\ pc' = "returned"
    /\ UNCHANGED <<capReleased, readCount, frame, results, k, m, exc, bench, isolated>>

\* lines 132-142: the camera does not open, a noise frame is generated
OpenFails ==
    /\ pc = "open"
    /\ openCount' = openCount + 1
    /\ capOpened' = FALSE
    /\ out' = out \o <<Line("banner"), Line("Error: Could not open camera"),
                       Line("Using test image instead...")>>
    /\ frame' = SyntheticFrame
    /\ pc' = "dump"
    /\ UNCHANGED <<capReleased, readCount, results, k, m, exc, bench, isolated>>

\* lines 132-138: the camera opens
OpenSucceeds ==
    /\ pc = "open"
    /\ openCount' = openCount + 1
    /\ capOpened' = TRUE
    /\ out' = out \o <<Line("banner")>>
    /\ pc' = "read"
    /\ UNCHANGED <<capReleased, readCount, frame, results, k, m, exc, bench, isolated>>

\* lines 144-147 falling back to a generated frame instead of returning
ReadFailsFallback ==
    /\ pc = "read"
    /\ readCount' = readCount + 1
    /\ out' = Append(out, Line("Error: Could not read frame"))
    /\ frame' = SyntheticFrame
    /\ pc' = "dump"
    /\ UNCHANGED <<capOpened, capReleased, openCount, results, k, m, exc, bench, isolated>>

\* lines 144-147: no frame is delivered
ReadFails ==
    /\ pc = "read"
    /\ readCount' = readCount + 1
    /\ out' = Append(out, Line("Error: Could not read frame"))
    /\ pc' = "returned"
    /\ UNCHANGED <<capOpened, capReleased, openCount, frame, results, k, m, exc,
                   bench, isolated>>

\* lines 144-149: a frame is delivered and the camera released
ReadSucceeds ==
    /\ pc = "read"
    /\ readCount' = readCount + 1
    /\ frame' \in CameraFrames
    /\ capReleased' = TRUE
    /\ out' = Append(out, Line("Using camera frame"))
    /\ pc' = "dump"
    /\ UNCHANGED <<capOpened, openCount, results, k, m, exc, bench, isolated>>

\* the lines printed per configuration at lines 154-157
RECURSIVE DumpLines(_)
DumpLines(n) ==
    IF n > Len(ConfigOrder) THEN <<>>
    ELSE <<[kind |-> "config", config |-> ConfigOrder[n], cfg |-> configs[ConfigOrder[n]]]>>
         \o DumpLines(n + 1)

\* lines 151-164
PrintConfigDump ==
    /\ pc = "dump"
    /\ out' = out \o <<Line("Configuration Details:")>> \o DumpLines(1)
                  \o <<Line("Testing configurations...")>>
    /\ results' = <<>>
    /\ k' = 1
    /\ pc' = "loop"
    /\ UNCHANGED <<camera, frame, m, exc, bench, isolated>>

\* lines 165-166 and 107-108: the next preset's test_configuration is entered
BeginTest ==
    /\ pc = "loop"
    /\ k <= Len(ConfigOrder)
    /\ out' = Append(out, [kind |-> "Testing", config |-> ConfigOrder[k]])
    /\ i' = 0
    /\ hist' = [NoHist EXCEPT !.enteredAt = now, !.callsAtBegin = Len(calls)]
    /\ pc' = "warmup"
    /\ UNCHANGED <<camera, frame, results, result, k, j, now, start, corners, ids,
                   calls, exc, m, anyDetected, isolated>>

\* the second library call is made only with use_multi_threshold
OtsuResults(config) == IF config.use_multi_threshold THEN BenchLibResults ELSE {NoLib}

Detected(config, adaptive, otsu) ==
    \/ ~adaptive.ids.none
    \/ config.use_multi_threshold /\ ~otsu.ids.none

\* the durations a call may last at tick t when the clock stops advancing at tick cap
DurationsUntil(t, cap) == {d \in Durations : t + d <= cap}

\* lines 111-112: one warm-up call, its result discarded
WarmupStep(cap) ==
    /\ pc = "warmup"
    /\ i < WarmupIterations
    /\ \E dur \in DurationsUntil(now, cap), adaptive \in BenchLibResults :
         \E otsu \in OtsuResults(setup_detector(ConfigOrder[k]).cfg) :
            /\ now' = now + dur
            /\ anyDetected' = (anyDetected \/
                               Detected(setup_detector(ConfigOrder[k]).cfg, adaptive, otsu))
    /\ calls' = Append(calls, [config |-> ConfigOrder[k], frame |-> frame.src])
    /\ i' = i + 1
    /\ UNCHANGED <<pc, camera, frame, out, results, result, k, j, start, corners, ids,
                   hist, exc, m, isolated>>

\* lines 115-116: the timer is started
StartTimer ==
    /\ pc = "warmup"
    /\ i >= WarmupIterations
    /\ start' = now
    /\ j' = 0
    /\ hist' = [hist EXCEPT !.callsAtStart = Len(calls)]
    /\ pc' = "timed"
    /\ UNCHANGED <<camera, frame, out, results, result, k, i, now, corners, ids, calls,
                   exc, m, anyDetected, isolated>>

\* lines 117-118: one timed call
TimedStep(cap) ==
    /\ pc = "timed"
    /\ j < num_iterations
    /\ \E dur \in DurationsUntil(now, cap), adaptive \in BenchLibResults :
         \E otsu \in OtsuResults(setup_detector(ConfigOrder[k]).cfg) :
            LET r == detect_markers(cvtColor(frame), setup_detector(ConfigOrder[k]).cfg,
                                    adaptive, otsu)
            IN  /\ now' = now + dur
                /\ corners' = r.corners
                /\ ids' = r.ids
                /\ hist' = [hist EXCEPT !.timedTicks = @ + dur,
                                        !.timedDurs = @ \cup {dur}]
                /\ anyDetected' = (anyDetected \/
                                   Detected(setup_detector(ConfigOrder[k]).cfg, adaptive, otsu))
    /\ calls' = Append(calls, [config |-> ConfigOrder[k], frame |-> frame.src])
    /\ j' = j + 1
    /\ UNCHANGED <<pc, camera, frame, out, results, result, k, i, start, exc, m, isolated>>

WarmupCall == WarmupStep(MaxClock)
TimedCall == TimedStep(MaxClock)

\* lines 112 / 118: a library call raises; nothing catches it
LibraryRaises ==
    /\ \/ pc = "warmup" /\ i < WarmupIterations
       \/ pc = "timed" /\ j < num_iterations
    /\ exc' = "library"
    /\ pc' = "raised"
    /\ UNCHANGED <<camera, frame, out, results, k, m, bench, isolated>>

\* lines 119-128: the timer is stopped and the record built
BuildRecord ==
    /\ pc = "timed"
    /\ j >= num_iterations
    /\ LET record == BenchmarkRecord(ConfigOrder[k], ids, ElapsedMs(start, now))
       IN  IF record.fps = DivError
           THEN /\ exc' = "ZeroDivisionError"
                /\ pc' = "raised"
                /\ UNCHANGED result
           ELSE /\ result' = record
                /\ pc' = "tested"
                /\ UNCHANGED exc
    /\ hist' = [hist EXCEPT !.callsAtStop = Len(calls)]
    /\ UNCHANGED <<camera, frame, out, results, k, i, j, now, start, corners, ids, calls,
                   m, anyDetected, isolated>>

\* lines 167-169
AppendResult ==
    /\ pc = "tested"
    /\ results' = Append(results, result)
    /\ out' = Append(out, [kind |-> "Done!", config |-> ConfigOrder[k]])
    /\ k' = k + 1
    /\ pc' = "loop"
    /\ UNCHANGED <<camera, frame, m, exc, bench, isolated>>

\* lines 178-180
RECURSIVE Rows(_, _)
Rows(rs, n) ==
    IF n > Len(rs) THEN <<>>
    ELSE <<[kind |-> "row", config |-> rs[n].config, num_markers |-> rs[n].num_markers,
            time_ms |-> rs[n].time_ms, fps |-> rs[n].fps]>> \o Rows(rs, n + 1)

\* lines 171-188: the results table and the heading of the improvement section
PrintTable ==
    /\ pc = "loop"
    /\ k > Len(ConfigOrder)
    /\ out' = out \o <<Line("Results:")>> \o Rows(results, 1)
                  \o <<Line("Improvements vs Original:")>>
    /\ m' = 2
    /\ pc' = "improve"
    /\ UNCHANGED <<camera, frame, results, k, exc, bench, isolated>>

\* lines 190-198; time_percent is DivError when line 191 raises
Delta(rs, n) ==
    LET original_time == rs[1].time_ms
        time_overhead == RatSub(rs[n].time_ms, original_time)
    IN  [kind          |-> "delta",
         config        |-> rs[n].config,
         num_markers   |-> rs[n].num_markers,
         sign          |-> IF rs[n].num_markers > rs[1].num_markers THEN "+" ELSE "",
         markers_delta |-> rs[n].num_markers - rs[1].num_markers,
         time_overhead |-> time_overhead,
         time_percent  |-> IF RatDiv(time_overhead, original_time) = DivError
                           THEN DivError
                           ELSE RatMul(RatDiv(time_overhead, original_time), RatInt(100)),
         fps           |-> rs[n].fps]

\* lines 189-198: one iteration of the improvement loop
ImproveStep ==
    /\ pc = "improve"
    /\ m <= Len(results)
    /\ Delta(results, m).time_percent # DivError
    /\ out' = Append(out, Delta(results, m))
    /\ m' = m + 1
    /\ UNCHANGED <<pc, camera, frame, results, k, exc, bench, isolated>>

\* line 191: time_overhead / original_time with original_time == 0.0
ImproveRaises ==
    /\ pc = "improve"
    /\ m <= Len(results)
    /\ Delta(results, m).time_percent = DivError
    /\ exc' = "ZeroDivisionError"
    /\ pc' = "raised"
    /\ UNCHANGED <<camera, frame, out, results, k, m, bench, isolated>>

\* lines 200-209
PrintRecommendations ==
    /\ pc = "improve"
    /\ m > Len(results)
    /\ out' = Append(out, Line("Recommendations:"))
    /\ pc' = "done"
    /\ UNCHANGED <<camera, frame, results, k, exc, m, bench, isolated>>

Next ==
    \/ OpenFails
    \/ OpenSucceeds
    \/ ReadFails
    \/ ReadSucceeds
    \/ PrintConfigDump
    \/ BeginTest
    \/ WarmupCall
    \/ StartTimer
    \/ TimedCall
    \/ LibraryRaises
    \/ BuildRecord
    \/ AppendResult
    \/ PrintTable
    \/ ImproveStep
    \/ ImproveRaises
    \/ PrintRecommendations

Spec == Init /\ [][Next]_vars

(***************************************************************************)
(* test_configuration in isolation, lines 105-128: any preset, any frame,  *)
(* any clock reading on entry, every call lasting any of the durations.    *)
(***************************************************************************)
InitBench ==
    /\ pc = "loop"
    /\ capOpened = FALSE
    /\ capReleased = FALSE
    /\ openCount = 0
    /\ readCount = 0
    /\ frame \in CameraFrames \cup {SyntheticFrame}
    /\ out = <<>>
    /\ results = <<>>
    /\ result = NoResult
    /\ k \in 1..Len(ConfigOrder)
    /\ i = 0
    /\ j = 0
    /\ now \in Durations
    /\ start = 0
    /\ corners = <<>>
    /\ ids = NoneIds
    /\ calls = <<>>
    /\ hist = NoHist
    /\ exc = "none"
    /\ m = 2
    /\ anyDetected = FALSE
    /\ dcfg = configs.original
    /\ libA = NoLib
    /\ libO = NoLib
    /\ libCalls = <<>>

\* the clock never stops advancing within one test_configuration
BenchClock == MaxDur * (1 + WarmupIterations + num_iterations)
BenchWarmupCall == WarmupStep(BenchClock)
BenchTimedCall == TimedStep(BenchClock)

NextBench ==
    \/ BeginTest
    \/ BenchWarmupCall
    \/ StartTimer
    \/ BenchTimedCall
    \/ LibraryRaises
    \/ BuildRecord

SpecBench == InitBench /\ [][NextBench]_vars

(***************************************************************************)
(* detect_markers in isolation: any preset, any pair of library results    *)
(* (the second library call is made only with use_multi_threshold).        *)
(***************************************************************************)
InitDetect ==
    /\ pc = "detect"
    /\ capOpened = FALSE
    /\ capReleased = FALSE
    /\ openCount = 0
    /\ readCount = 0
    /\ frame = SyntheticFrame
    /\ out = <<>>
    /\ results = <<>>
    /\ result = NoResult
    /\ k = 1
    /\ i = 0
    /\ j = 0
    /\ now = 0
    /\ start = 0
    /\ corners = <<>>
    /\ ids = NoneIds
    /\ calls = <<>>
    /\ hist = NoHist
    /\ exc = "none"
    /\ m = 2
    /\ anyDetected = FALSE
    /\ dcfg \in DetectConfigs
    /\ libA \in LibResults
    /\ libO \in IF dcfg.use_multi_threshold THEN LibResults ELSE {NoLib}
    /\ libCalls = <<>>

\* one call of detect_markers, lines 70-103
DetectCall ==
    /\ pc = "detect"
    /\ LET r == detect_markers(cvtColor(frame), dcfg, libA, libO)
       IN  /\ corners' = r.corners
           /\ ids' = r.ids
           /\ libCalls' = r.libcalls
    /\ pc' = "detected"
    /\ UNCHANGED <<camera, frame, out, results, result, k, i, j, now, start, calls, hist,
                   exc, m, anyDetected, dcfg, libA, libO>>

NextDetect == DetectCall

SpecDetect == InitDetect /\ [][NextDetect]_vars

(***************************************************************************)
(* Properties of detect_markers (SpecDetect).                              *)
(***************************************************************************)
Range(s) == {s[n] : n \in 1..Len(s)}
Reported(res) == IF res.ids.none THEN {} ELSE Range(res.ids.arr)
Occurrences(s, x) == Cardinality({n \in 1..Len(s) : s[n] = x})
OutputIds == IF ids.none THEN <<>> ELSE ids.arr
\* the corner-sets a pass pairs with identifier x
CornersOf(res, x) ==
    IF res.ids.none THEN {} ELSE {res.corners[n] : n \in {q \in 1..Len(res.ids.arr) : res.ids.arr[q] = x}}

\* C1: with use_multi_threshold, the identifier array returned by detect_markers
\* holds every identifier reported by the adaptive or the Otsu pass exactly once
\* and no other identifier, whatever the two passes report (duplicates included).
C1_MergedIdsUnique ==
    (pc = "detected" /\ dcfg.use_multi_threshold) =>
        /\ \A x \in Reported(libA) \cup Reported(libO) : Occurrences(OutputIds, x) = 1
        /\ Range(OutputIds) \subseteq Reported(libA) \cup Reported(libO)
        /\ Len(corners) = Len(OutputIds)

\* a merged call where the adaptive pass repeats an identifier and the Otsu pass
\* reports it too, next to a new one
C1_Witness ==
    /\ pc = "detected"
    /\ dcfg.use_multi_threshold
    /\ ~libA.ids.none /\ Occurrences(libA.ids.arr, 1) = 2
    /\ ~libO.ids.none /\ Range(libO.ids.arr) = {1, 2}

\* C2: with use_multi_threshold, an identifier reported by both passes is paired in
\* the output with a corner-set of the adaptive pass (the first one the adaptive
\* pass gives for it); the Otsu pass's corner-set for it is not in the output.
C2_AdaptiveWins ==
    (pc = "detected" /\ dcfg.use_multi_threshold) =>
        \A x \in Reported(libA) \cap Reported(libO) :
            \A n \in 1..Len(OutputIds) :
                OutputIds[n] = x =>
                    /\ corners[n] \in CornersOf(libA, x)
                    /\ corners[n] =
                         libA.corners[CHOOSE q \in 1..Len(libA.ids.arr) :
                                        /\ libA.ids.arr[q] = x
                                        /\ \A r \in 1..(q - 1) : libA.ids.arr[r] # x]

\* both passes report identifier 1, with different corner-sets
C2_Witness ==
    /\ pc = "detected"
    /\ dcfg.use_multi_threshold
    /\ 1 \in Reported(libA) \cap Reported(libO)
    /\ CornersOf(libA, 1) = {1}
    /\ CornersOf(libO, 1) = {2}
    /\ \E n \in 1..Len(OutputIds) : OutputIds[n] = 1 /\ corners[n] = 1

\* C3: without use_multi_threshold, detect_markers makes exactly one library call,
\* on the preprocessed image, and returns its corner-sets and identifiers unchanged.
C3_SinglePassUnchanged ==
    (pc = "detected" /\ ~dcfg.use_multi_threshold) =>
        /\ libCalls = <<preprocess_image(cvtColor(frame), dcfg)>>
        /\ corners = libA.corners
        /\ ids = libA.ids

\* a single-pass call whose library result repeats an identifier, in descending order
C3_Witness ==
    /\ pc = "detected"
    /\ ~dcfg.use_multi_threshold
    /\ ~ids.none
    /\ ids.arr = <<2, 2>>
    /\ corners = <<2, 1>>

(***************************************************************************)
(* Properties of test_configuration (SpecBench).                           *)
(***************************************************************************)
\* C4: test_configuration makes 13 detection calls: 3 completed before the timer
\* starts, then 10 between timer start and timer stop; time_ms is the total duration
\* of the 10 timed calls divided by 10, so it equals d when every timed call lasts d,
\* whatever the warm-up calls lasted.
C4_WarmupThenTimedMean ==
    pc = "tested" =>
        /\ hist.callsAtStart - hist.callsAtBegin = 3
        /\ hist.callsAtStop - hist.callsAtStart = 10
        /\ Len(calls) - hist.callsAtBegin = 13
        /\ \A n \in (hist.callsAtBegin + 1)..Len(calls) :
              calls[n] = [config |-> ConfigOrder[k], frame |-> frame.src]
        /\ result.time_ms.n * 10 = hist.timedTicks * result.time_ms.d
        /\ \A d \in Durations :
              hist.timedDurs = {d} => result.time_ms = [n |-> d, d |-> 1]

\* every timed call lasted one tick after warm-up calls that took time
C4_Witness ==
    /\ pc = "tested"
    /\ hist.timedDurs = {1}
    /\ start > hist.enteredAt
    /\ result.time_ms = [n |-> 1, d |-> 1]

\* C5: num_markers is the length of the identifier array, 0 when it is None; fps is
\* 1000/time_ms when time_ms > 0 and 0 when time_ms is 0; building the record never
\* raises ZeroDivisionError.
C5_RecordFields ==
    /\ exc # "ZeroDivisionError"
    /\ pc = "tested" =>
        /\ ids.none => result.num_markers = 0
        /\ ~ids.none => result.num_markers = Len(ids.arr)
        /\ result.time_ms.n > 0 =>
              result.fps.n * result.time_ms.n = 1000 * result.fps.d * result.time_ms.d
        /\ result.time_ms.n = 0 => result.fps = [n |-> 0, d |-> 1]
        /\ result.config = ConfigOrder[k]

\* a record built from a None identifier result after ten timed calls of no duration
C5_Witness ==
    /\ pc = "tested"
    /\ ids.none
    /\ hist.timedTicks = 0
    /\ result.num_markers = 0
    /\ result.fps.n = 0

\* a record built from a non-empty identifier array and a positive mean
C5_WitnessPositive ==
    /\ pc = "tested"
    /\ ~ids.none
    /\ result.num_markers > 0
    /\ result.time_ms.n > 0

(***************************************************************************)
(* Properties of main (Spec).                                              *)
(***************************************************************************)
Terminated == pc \in {"done", "returned", "raised"}
OpenFailed == openCount > 0 /\ ~capOpened
ReadFailed == capOpened /\ readCount > 0 /\ frame.src # "camera"
Kinds == [n \in 1..Len(out) |-> out[n].kind]
Printed(kind) == \E n \in 1..Len(out) : out[n].kind = kind
CallsOf(name) == {n \in 1..Len(calls) : calls[n].config = name}
\* the calls of the three presets, 13 each, one preset after the other
AllBenchmarked(src) ==
    /\ Len(results) = 3
    /\ \A n \in 1..3 : results[n].config = ConfigOrder[n]
    /\ Len(calls) = 39
    /\ \A n \in 1..39 :
          calls[n] = [config |-> ConfigOrder[((n - 1) \div 13) + 1], frame |-> src]

\* C6 as stated: when the camera fails to open or fails to deliver a frame, main
\* falls back to the generated 640x480 frame and all three presets are benchmarked
\* on it (runs ended by a raising library call set aside).
C6_FallbackOnAnyFailure ==
    (Terminated /\ exc # "library" /\ (OpenFailed \/ ReadFailed)) =>
        /\ frame = SyntheticFrame
        /\ AllBenchmarked("synthetic")

\* C6 amended: when the camera fails to open, main falls back to the generated
\* 640x480 frame, every detection call is made on it and, unless a library call
\* raises, all three presets are benchmarked on it; when the camera opens but
\* delivers no frame there is no fallback: no frame is generated and no preset is
\* benchmarked.
C6_FallbackOnOpenFailure ==
    /\ OpenFailed =>
          /\ frame = SyntheticFrame
          /\ frame.shape = <<480, 640, 3>>
          /\ \A n \in 1..Len(calls) : calls[n].frame = "synthetic"
    /\ (Terminated /\ OpenFailed /\ exc # "library") => AllBenchmarked("synthetic")
    /\ ReadFailed => frame = NoFrame /\ calls = <<>> /\ results = <<>>

\* a run that ended after benchmarking all three presets on the generated frame
C6_Witness ==
    /\ pc = "done"
    /\ OpenFailed
    /\ frame = SyntheticFrame
    /\ Len(results) = 3
    /\ Len(calls) = 39

\* C7: when the camera opens but no frame can be read, main prints the error message
\* and returns at once: no preset is benchmarked, no detection call is made, and no
\* configuration dump, results table or improvement section is printed.
C7_ReadFailureReturns ==
    ReadFailed =>
        /\ pc = "returned"
        /\ ~ENABLED Next
        /\ Kinds = <<"banner", "Error: Could not read frame">>
        /\ results = <<>>
        /\ calls = <<>>
        /\ exc = "none"

\* the run in which the camera opened and the read failed
C7_Witness ==
    /\ pc = "returned"
    /\ capOpened
    /\ readCount = 1
    /\ frame = NoFrame

\* C8: the camera is opened at most once and read at most once, and whenever it was
\* opened it has been released by the time main returns, the run in which the read
\* fails included.
C8_OpenReadRelease ==
    /\ openCount <= 1
    /\ readCount <= 1
    /\ (pc \in {"done", "returned"} /\ capOpened) => capReleased

\* C9: whenever a frame is obtained and no library call raises, main ends having
\* benchmarked each preset once, in the order original, optimized, maximum, 13 calls
\* each and one preset after the other, having printed the configuration dump before
\* the first benchmark, then three table rows in that order, then the deltas of
\* optimized and maximum; when no pass detected a marker every row has num_markers 0.
C9_FullReport ==
    (Terminated /\ frame.src # "none" /\ exc # "library") =>
        /\ AllBenchmarked(frame.src)
        /\ \E d, t \in 1..Len(out) :
              /\ d < t
              /\ out[d].kind = "Configuration Details:"
              /\ out[t].kind = "Testing"
              /\ \A n \in 1..(t - 1) : out[n].kind # "Testing"
        /\ \E r \in 1..Len(out) :
              /\ r + 6 <= Len(out)
              /\ out[r].kind = "Results:"
              /\ \A n \in 1..3 : /\ out[r + n].kind = "row"
                                 /\ out[r + n].config = ConfigOrder[n]
                                 /\ out[r + n].num_markers = results[n].num_markers
                                 /\ ~anyDetected => out[r + n].num_markers = 0
              /\ out[r + 4].kind = "Improvements vs Original:"
              /\ out[r + 5].kind = "delta" /\ out[r + 5].config = "optimized"
              /\ out[r + 6].kind = "delta" /\ out[r + 6].config = "maximum"
        /\ Cardinality({n \in 1..Len(out) : out[n].kind = "row"}) = 3

\* C10: once the three presets are benchmarked the improvement section never raises,
\* the case of an original time_ms of 0 included.
C10_ImprovementNeverRaises ==
    Len(results) = 3 => exc # "ZeroDivisionError"

====
